---- MODULE Spec2Model ----
(***************************************************************************)
(* Verification model of penguin-aaa: signing-key stores                   *)
(* (crypto/keystore.py, crypto/jwks.py), token issuance                    *)
(* (authn/oidc_provider.py) and the configuration validators               *)
(* (hardening/validators.py, authn/oidc_rp.py).                            *)
(*                                                                         *)
(* Algorithm identifiers are sequences of one-character strings so that    *)
(* str.startswith is computed, not assumed.  Values that the code draws    *)
(* from a random source (uuid4 kids, key material) are taken from the      *)
(* counter gen: every draw is new with respect to every earlier one.       *)
(***************************************************************************)
EXTENDS Integers, Sequences, FiniteSets, TLC

\* ------------------------------------------------------------------------
\* Bounds of the model
\* ------------------------------------------------------------------------
MaxRotations == 5
MaxRestarts == 1
MaxFileKeys == 4
MaxTime == 2

\* ------------------------------------------------------------------------
\* Program constants
\* ------------------------------------------------------------------------
MAX_KEYS == 3
RSA_PUBLIC_EXPONENT == 65537

\* ------------------------------------------------------------------------
\* Algorithm identifiers
\* ------------------------------------------------------------------------
RS256 == <<"R", "S", "2", "5", "6">>
RS384 == <<"R", "S", "3", "8", "4">>
RS512 == <<"R", "S", "5", "1", "2">>
PS256 == <<"P", "S", "2", "5", "6">>
PS384 == <<"P", "S", "3", "8", "4">>
PS512 == <<"P", "S", "5", "1", "2">>
ES256 == <<"E", "S", "2", "5", "6">>
ES384 == <<"E", "S", "3", "8", "4">>
ES512 == <<"E", "S", "5", "1", "2">>
HS256 == <<"H", "S", "2", "5", "6">>
AlgNone == <<"n", "o", "n", "e">>
PSK == <<"P", "S", "K">>
EdDSA == <<"E", "d", "D", "S", "A">>

\* the signing algorithms the specification calls supported
SupportedAlgorithms ==
    {RS256, RS384, RS512, PS256, PS384, PS512, ES256, ES384, ES512}

ALLOWED_PROVIDER_ALGORITHMS ==
    {RS256, RS384, RS512, ES256, ES384, ES512, PS256, PS384, PS512}

\* the allow-list with the symmetric algorithm let in
ALLOWED_RP_ALGORITHMS_WithHS256 ==
    {RS256, RS384, RS512, ES256, ES384, ES512, PS256, PS384, PS512, HS256}

ALLOWED_RP_ALGORITHMS ==
    {RS256, RS384, RS512, ES256, ES384, ES512, PS256, PS384, PS512}

\* algorithm strings a store is constructed with in this model
StoreAlgorithms == {RS256, ES256, HS256, AlgNone, PSK}

\* str.startswith
StartsWith(s, p) == Len(s) >= Len(p) /\ SubSeq(s, 1, Len(p)) = p

\* ------------------------------------------------------------------------
\* Keys, kids, PEM
\* ------------------------------------------------------------------------
\* uuid.uuid4() as the g-th draw of the random source
Uuid4(g) == 100 + g

RsaKey(g) == [kty |-> "RSA", crv |-> "", mat |-> g]
EcKey(curve, g) == [kty |-> "EC", crv |-> curve, mat |-> g]

\* _generate_key: the strings it accepts (every other string raises ValueError)
_generate_key_ok(algorithm) ==
    \/ StartsWith(algorithm, <<"R", "S">>)
    \/ StartsWith(algorithm, <<"P", "S">>)
    \/ algorithm \in {ES256, ES384, ES512}

_generate_key(algorithm, g) ==
    IF StartsWith(algorithm, <<"R", "S">>) \/ StartsWith(algorithm, <<"P", "S">>)
    THEN RsaKey(g)
    ELSE IF algorithm = ES256 THEN EcKey("secp256r1", g)
    ELSE IF algorithm = ES384 THEN EcKey("secp384r1", g)
    ELSE EcKey("secp521r1", g)

\* PKCS8 PEM text of a private key: a tagged tuple, not the key record
_private_key_to_pem(key) == <<"PRIVATE KEY", key.kty, key.crv, key.mat>>

\* load_pem_private_key accepts other key families; _load_private_key_from_pem
\* raises TypeError for them
_load_private_key_from_pem_ok(pem) == pem[2] \in {"RSA", "EC"}

_load_private_key_from_pem(pem) == [kty |-> pem[2], crv |-> pem[3], mat |-> pem[4]]

\* ------------------------------------------------------------------------
\* JWK encoder
\* ------------------------------------------------------------------------
_EC_CURVE_NAMES ==
    [c \in {"secp256r1", "secp384r1", "secp521r1"} |->
        IF c = "secp256r1" THEN <<"P-256", 32>>
        ELSE IF c = "secp384r1" THEN <<"P-384", 48>>
        ELSE <<"P-521", 66>>]

\* private_key.public_key(): the public half only
public_key(key) == [kty |-> key.kty, crv |-> key.crv, pub |-> key.mat]

_rsa_to_jwk(key, kid, alg) ==
    [kty |-> "RSA", use |-> "sig", alg |-> alg, kid |-> kid,
     n |-> key.pub, e |-> RSA_PUBLIC_EXPONENT]

_ec_to_jwk(key, kid, alg) ==
    [kty |-> "EC", use |-> "sig", alg |-> alg, kid |-> kid,
     crv |-> _EC_CURVE_NAMES[key.crv][1], x |-> key.pub, y |-> key.pub]

public_key_to_jwk(key, kid, alg) ==
    IF key.kty = "RSA" THEN _rsa_to_jwk(key, kid, alg) ELSE _ec_to_jwk(key, kid, alg)

\* get_jwks run without interference: the "keys" list
get_jwks(ks, alg) ==
    [i \in 1..Len(ks) |-> public_key_to_jwk(public_key(ks[i].key), ks[i].kid, alg)]

\* ------------------------------------------------------------------------
\* Persisted key file
\* ------------------------------------------------------------------------
\* the entries written newest first
SaveEntries_NewestFirst(ks) ==
    [i \in 1..Len(ks) |->
        [kid |-> ks[Len(ks) + 1 - i].kid,
         pem |-> _private_key_to_pem(ks[Len(ks) + 1 - i].key)]]

\* _save: the "keys" entries written for a key sequence
SaveEntries(ks) ==
    [i \in 1..Len(ks) |-> [kid |-> ks[i].kid, pem |-> _private_key_to_pem(ks[i].key)]]

\* _load: succeeds when every pem holds an RSA or EC key
LoadOk(entries) ==
    \A i \in 1..Len(entries) : _load_private_key_from_pem_ok(entries[i].pem)

LoadEntries(entries) ==
    [i \in 1..Len(entries) |->
        [key |-> _load_private_key_from_pem(entries[i].pem), kid |-> entries[i].kid]]

\* A key file found on the path at start-up: n entries written under
\* algorithm a by a compatible writer (kids are uuid4 values, pairwise
\* distinct; the document format does not limit n), or one entry of a
\* foreign key family.
WrittenFile(a, n) ==
    [i \in 1..n |-> [kid |-> Uuid4(i), pem |-> _private_key_to_pem(_generate_key(a, i))]]

ForeignFile == <<[kid |-> Uuid4(1), pem |-> <<"PRIVATE KEY", "OKP", "Ed25519", 1>>]>>

ExistingFiles ==
    {WrittenFile(a, n) : a \in {RS256, ES256}, n \in 0..MaxFileKeys} \cup {ForeignFile}

\* ------------------------------------------------------------------------
\* Configuration validators
\* ------------------------------------------------------------------------
\* A URL as urlparse sees it: blank text, scheme, netloc, and the hostname as
\* its dot-separated labels.
Url(blank, scheme, netloc, hostname) ==
    [blank |-> blank, scheme |-> scheme, netloc |-> netloc, hostname |-> hostname]

Urls ==
    {Url(TRUE, "", "", <<>>),
     Url(FALSE, "", "", <<>>),
     Url(FALSE, "https", "auth.example.com", <<"auth", "example", "com">>),
     Url(FALSE, "http", "auth.example.com", <<"auth", "example", "com">>),
     Url(FALSE, "http", "localhost:8080", <<"localhost">>),
     Url(FALSE, "http", "app.localhost", <<"app", "localhost">>)}

\* validate_https_url: "" when it returns, else the error it raises
validate_https_url(url) ==
    IF url.blank THEN "ValueError: must not be empty"
    ELSE IF url.scheme = "" \/ url.netloc = "" THEN "ValueError: must be a fully-qualified URL"
    ELSE LET is_localhost ==
                 \/ url.hostname \in {<<"localhost">>, <<"127.0.0.1">>, <<"::1">>}
                 \/ (Len(url.hostname) >= 2 /\ url.hostname[Len(url.hostname)] = "localhost")
         IN IF ~is_localhost /\ url.scheme # "https"
            THEN "ValueError: must use HTTPS"
            ELSE ""

\* validate_algorithm: "" when it returns, else the error it raises
validate_algorithm(alg, allowed) ==
    IF alg \in {AlgNone, HS256} THEN "ValueError: explicitly forbidden"
    ELSE IF alg \notin allowed THEN "ValueError: not in the permitted set"
    ELSE ""

\* OIDCProviderConfig.__post_init__
ProviderPostInit(issuer, audiences, alg) ==
    IF validate_https_url(issuer) # "" THEN validate_https_url(issuer)
    ELSE IF validate_algorithm(alg, ALLOWED_PROVIDER_ALGORITHMS) # ""
         THEN validate_algorithm(alg, ALLOWED_PROVIDER_ALGORITHMS)
    ELSE IF audiences = <<>> THEN "ValueError: audiences"
    ELSE ""

\* for alg in self.algorithms: if alg not in ALLOWED_RP_ALGORITHMS: raise
RECURSIVE RPAlgorithmLoop(_)
RPAlgorithmLoop(algs) ==
    IF algs = <<>> THEN ""
    ELSE IF Head(algs) \notin ALLOWED_RP_ALGORITHMS THEN "ValueError: not allowed"
    ELSE RPAlgorithmLoop(Tail(algs))

\* OIDCRPConfig.__post_init__
RPPostInit(issuer_url, redirect_url, algs) ==
    IF validate_https_url(issuer_url) # "" THEN validate_https_url(issuer_url)
    ELSE IF validate_https_url(redirect_url) # "" THEN validate_https_url(redirect_url)
    ELSE RPAlgorithmLoop(algs)

\* inputs of the configuration constructors
ConfigAlgorithms == {RS256, HS256, AlgNone, EdDSA}
MaxAlgorithms == 2
AlgorithmLists ==
    UNION {[1..n -> ConfigAlgorithms] : n \in 0..MaxAlgorithms}
AudienceLists == {<<>>, <<"api">>}

\* ------------------------------------------------------------------------
\* Tokens: jwt.encode, the JWKS lookup, jwt.decode
\* ------------------------------------------------------------------------
MAX_TOKEN_SIZE == 8192

\* OIDCRPConfig.clock_skew, the unit of the model clock
clock_skew == 1

IssuerUrl == Url(FALSE, "https", "auth.example.com", <<"auth", "example", "com">>)

\* the key type an algorithm signs and verifies with
KeyFamily(alg) ==
    IF StartsWith(alg, <<"R", "S">>) \/ StartsWith(alg, <<"P", "S">>) THEN "RSA"
    ELSE IF StartsWith(alg, <<"E", "S">>) THEN "EC"
    ELSE "none"

\* Claims handed to issue_token_set; ext stands for the size of the claim set
ClaimsInputs ==
    {[sub |-> "alice", tenant |-> "acme", roles |-> <<>>, ext |-> "small"],
     [sub |-> "bob", tenant |-> "globex", roles |-> <<"admin">>, ext |-> "small"],
     [sub |-> "bob", tenant |-> "globex", roles |-> <<"admin", "auditor">>, ext |-> "large"]}

\* a payload that leaves the roles out
TokenPayload_NoRoles(config, claims, t, token_use) ==
    [sub |-> claims.sub, iss |-> config.issuer, aud |-> config.audiences, iat |-> t,
     scope |-> <<"openid">>, roles |-> <<>>, tenant |-> claims.tenant,
     teams |-> <<>>, ext |-> claims.ext, exp |-> t + config.token_ttl,
     token_use |-> token_use]

\* base_payload plus exp and token_use
TokenPayload(config, claims, t, token_use) ==
    [sub |-> claims.sub, iss |-> config.issuer, aud |-> config.audiences, iat |-> t,
     scope |-> <<"openid">>, roles |-> claims.roles, tenant |-> claims.tenant,
     teams |-> <<>>, ext |-> claims.ext, exp |-> t + config.token_ttl,
     token_use |-> token_use]

NoPayload ==
    [sub |-> "", iss |-> Url(TRUE, "", "", <<>>), aud |-> <<>>, iat |-> 0,
     scope |-> <<>>, roles |-> <<>>, tenant |-> "", teams |-> <<>>, ext |-> "small",
     exp |-> 0, token_use |-> ""]

\* the signature binds the signing key, the header algorithm and the payload
Signature(key, alg, payload) == [mat |-> key.mat, alg |-> alg, payload |-> payload]

\* jwt.encode signs only with a key of the algorithm's family
JwtEncodeOk(signing_key, alg) == KeyFamily(alg) = signing_key.kty

\* len(raw_token): a small claim set fills the limit exactly, a large one exceeds it
EncodedLength(payload) ==
    IF payload.ext = "large" THEN MAX_TOKEN_SIZE + 1 ELSE MAX_TOKEN_SIZE

\* jwt.encode(payload, signing_key, algorithm=..., headers={"kid": kid})
JwtEncode(payload, signing_key, alg, kid) ==
    [alg |-> alg, kid |-> kid, payload |-> payload,
     sig |-> <<Signature(signing_key, alg, payload)>>, len |-> EncodedLength(payload)]

\* a string of n characters that is no JWT
Garbage(n) == [alg |-> <<>>, kid |-> 0, payload |-> NoPayload, sig |-> <<>>, len |-> n]

\* an issued token whose payload was rewritten without the key
Tampered(token) == [token EXCEPT !.payload.sub = "mallory"]

\* PyJWKSet keeps the entries whose alg label names an algorithm of their kty
UsableJwks(jwks) ==
    SelectSeq(jwks, LAMBDA j : j.use = "sig" /\ KeyFamily(j.alg) = j.kty)

\* PyJWKClient.get_signing_key_from_jwt: the entries with the token's kid
MatchingJwks(raw_token, jwks) ==
    SelectSeq(UsableJwks(jwks), LAMBDA j : j.kid = raw_token.kid)

\* the public key material of a JWK
JwkMaterial(jwk) == IF jwk.kty = "RSA" THEN jwk.n ELSE jwk.x

\* the signature check of jwt.decode
SignatureVerifies(raw_token, jwk) ==
    /\ raw_token.sig # <<>>
    /\ KeyFamily(raw_token.alg) = jwk.kty
    /\ raw_token.sig[1] = [mat |-> JwkMaterial(jwk), alg |-> raw_token.alg,
                           payload |-> raw_token.payload]

InSeq(x, s) == \E i \in 1..Len(s) : s[i] = x

\* jwt.decode(raw_token, key, algorithms, audience, leeway): "" or the error
JwtDecode(raw_token, jwk, algorithms, audience, leeway, t) ==
    IF ~InSeq(raw_token.alg, algorithms) THEN "InvalidAlgorithmError"
    ELSE IF ~SignatureVerifies(raw_token, jwk) THEN "InvalidSignatureError"
    ELSE IF raw_token.payload.iat > t + leeway THEN "ImmatureSignatureError"
    ELSE IF raw_token.payload.exp <= t - leeway THEN "ExpiredSignatureError"
    ELSE IF ~InSeq(audience, raw_token.payload.aud) THEN "InvalidAudienceError"
    ELSE ""

\* Claims.model_validate(payload): the fields of Claims, token_use ignored
ClaimsOf(payload) ==
    [sub |-> payload.sub, iss |-> payload.iss, aud |-> payload.aud, iat |-> payload.iat,
     exp |-> payload.exp, scope |-> payload.scope, roles |-> payload.roles,
     tenant |-> payload.tenant, teams |-> payload.teams, ext |-> payload.ext]

\* validate_token from the JWKS lookup on: [raised, ret]
VerifyAndDecode(raw_token, jwks, config, t) ==
    IF raw_token.sig = <<>> THEN [raised |-> "DecodeError", ret |-> <<>>]
    ELSE IF MatchingJwks(raw_token, jwks) = <<>>
    THEN [raised |-> "PyJWKClientError", ret |-> <<>>]
    ELSE LET error == JwtDecode(raw_token, MatchingJwks(raw_token, jwks)[1],
                                config.algorithms, config.client_id, clock_skew, t)
         IN IF error # "" THEN [raised |-> error, ret |-> <<>>]
            ELSE [raised |-> "", ret |-> <<ClaimsOf(raw_token.payload)>>]

\* ------------------------------------------------------------------------
\* The discovery endpoint
\* ------------------------------------------------------------------------
required_fields == {"issuer", "jwks_uri", "authorization_endpoint", "token_endpoint"}

\* a discovery document: the keys it has, and which edition of it the server sent
Document(edition, fields) == [edition |-> edition, fields |-> fields]

\* what GET {issuer}/.well-known/openid-configuration may answer
Responses ==
    {[ok |-> TRUE, document |-> Document(e, required_fields \cup {"userinfo_endpoint"})] :
        e \in {"first", "second"}}
    \cup {[ok |-> TRUE, document |-> Document("first", required_fields \ {"jwks_uri"})],
          [ok |-> FALSE, document |-> Document("first", {})]}

\* a discover() that caches the document and builds no client
NewJwksClient_None(document) == <<>>

\* self._jwks_client = PyJWKClient(document["jwks_uri"])
NewJwksClient(document) == IF "jwks_uri" \in document.fields THEN <<"jwks_uri">> ELSE <<>>

\* a check that looks at the HTTP status only
DiscoverError_StatusOnly(response) == IF ~response.ok THEN "HTTPStatusError" ELSE ""

\* discover() after the GET: "" or the error it raises
DiscoverError(response) ==
    IF ~response.ok THEN "HTTPStatusError"
    ELSE IF required_fields \ response.document.fields # {}
    THEN "ValueError: missing required fields"
    ELSE ""

\* ------------------------------------------------------------------------
\* Emitter: fan-out over the registered sinks
\* ------------------------------------------------------------------------
MaxSinks == 2
MaxEmitterOps == 2

SinkIds == 1..MaxSinks

\* Emitter(*sinks): any registration order, a sink may be registered twice
SinkLists == UNION {[1..n -> SinkIds] : n \in 0..MaxSinks}

AuditEvents == {"auth.success", "auth.failure"}

\* which calls of one fan-out raise, by position in self._sinks
FailurePatterns == [1..MaxSinks -> BOOLEAN]

NoEmitterOp ==
    [name |-> "none", event |-> "", fails |-> <<>>, order |-> <<>>, errors |-> <<>>,
     raised |-> ""]

\* the fan-out abandoned at the first sink that raises
EmitVisits_StopAtFirstFailure(sinks, fails) ==
    {i \in 1..Len(sinks) : \A j \in 1..(i - 1) : ~fails[j]}

\* emit: "for sink in self._sinks: try: sink.emit(event) except Exception: ..."
\* the positions whose sink is called
EmitVisits(sinks, fails) == 1..Len(sinks)

\* flush given up at the first sink that raises
FlushVisits_StopAtFirstFailure(sinks, fails) ==
    {i \in 1..Len(sinks) : \A j \in 1..(i - 1) : ~fails[j]}

\* flush: "for sink in self._sinks: try: sink.flush() except Exception: pass"
FlushVisits(sinks, fails) == 1..Len(sinks)

\* close: "for sink in self._sinks: try: sink.close() except Exception: pass"
CloseVisits(sinks, fails) == 1..Len(sinks)

\* the elements of 1..n that are in a set, ascending, as a sequence
RECURSIVE Ascending(_, _)
Ascending(set, n) ==
    IF n = 0 THEN <<>>
    ELSE IF n \in set THEN Append(Ascending(set, n - 1), n)
    ELSE Ascending(set, n - 1)

\* the sinks called by one fan-out, in call order
CallOrder(sinks, visits) ==
    [k \in 1..Len(Ascending(visits, Len(sinks))) |-> sinks[Ascending(visits, Len(sinks))[k]]]

\* errors.append(exc): the positions that raised, in call order
CollectedErrors(sinks, visits, fails) ==
    SelectSeq(Ascending(visits, Len(sinks)), LAMBDA i : fails[i])

\* an aggregate raised as soon as one sink failed
EmitRaises_AnyFailure(errors, sinks) == errors # <<>>

\* if errors and len(errors) == len(self._sinks): raise ExceptionGroup(...)
EmitRaises(errors, sinks) == errors # <<>> /\ Len(errors) = Len(sinks)

\* flush and close: "except Exception: pass", nothing is raised
QuietRaises(errors) == FALSE

\* the calls one fan-out adds to the log of sink s
RECURSIVE Received(_, _, _, _, _, _)
Received(s, sinks, visits, fails, method, event) ==
    IF sinks = <<>> THEN <<>>
    ELSE LET n == Len(sinks)
             before == Received(s, SubSeq(sinks, 1, n - 1), visits, fails, method, event)
         IN IF n \in visits /\ sinks[n] = s
            THEN Append(before, [method |-> method, event |-> event, raised |-> fails[n]])
            ELSE before

\* ------------------------------------------------------------------------
\* KillKrillSink: threads, delivery with retries
\* ------------------------------------------------------------------------
MaxEvents == 2

\* threads calling emit, flush and close; "bg" is the flush thread
Callers == {"c1", "c2"}
Threads == Callers \cup {"bg"}

SinkVariants == {"audit", "utils"}
BatchSizes == {1, 2}
RetryLimits == {0, 2}

\* should_flush = len(self._buffer) >= self._config.batch_size
should_flush_Always(buffer, batch_size) == TRUE

\* a threshold that is only passed, never reached
should_flush_Above(buffer, batch_size) == Len(buffer) > batch_size

should_flush(buffer, batch_size) == Len(buffer) >= batch_size

\* the first value of the attempt counter: range(1 + max_retries) (audit) or
\* range(1, max_retries + 1) (utils)
FirstAttempt(v) == IF v = "audit" THEN 0 ELSE 1

\* a delivery loop with one iteration too many
LoopRuns_OneMore(attempt, max_retries) == attempt <= max_retries + 1

\* the delivery loop has an iteration for this value of the attempt counter
LoopRuns(attempt, max_retries) == attempt <= max_retries

\* audit: if attempt < max_retries: sleep; utils: if attempt == max_retries: return
SleepsAfter(attempt, max_retries) == attempt < max_retries

\* backoff = 2**attempt (audit) or 2 ** (attempt - 1) (utils)
Backoff(v, attempt) == IF v = "audit" THEN 2 ^ attempt ELSE 2 ^ (attempt - 1)

\* what a POST attempt may end with
PostOutcomes == {"ok", "HTTPError"}

\* the exceptions the delivery loop catches: Exception (audit), httpx.HTTPError (utils)
Caught(v, outcome) == v = "audit" \/ outcome = "HTTPError"

IdleThread ==
    [pc |-> "idle", op |-> "", event |-> 0, flush |-> FALSE, batch |-> 0,
     attempt |-> 0, raised |-> ""]

NotClosing ==
    [state |-> "open", by |-> "", buffered |-> <<>>, quiet |-> TRUE, timed_out |-> FALSE,
     log_len |-> 0, drained |-> 0]

\* ------------------------------------------------------------------------
\* State
\* ------------------------------------------------------------------------
VARIABLES
    store,      \* live store instance: "none", "memory" or "file"
    algorithm,  \* self._algorithm of the live instance
    keys,       \* self._keys: sequence of [key, kid], newest last
    file,       \* the store file: [exists, entries]
    gen,        \* number of draws made from the random source
    rots,       \* rotate_key calls begun (bounds the model)
    restarts,   \* instances destroyed (bounds the model)
    rot_pc,     \* position of the thread inside rotate_key
    pre,        \* self._keys when the running rotate_key was entered
    lastRot,    \* <<entry>> created by the latest rotate_key of this instance
    hist,       \* every entry this instance was given, in insertion order
    prevKeys,   \* <<keys>> of the last file store when it was destroyed
    op,         \* the latest constructor / rotate_key call and its outcome
    gsk,        \* the latest get_signing_key call and its outcome
    rd_pc,      \* position of the thread inside get_jwks
    rd_i,       \* list iterator index of the get_jwks loop
    rd_acc,     \* jwk_list of the running get_jwks
    rd_cands,   \* complete key lists the store held during the running get_jwks
    is_pc,      \* position of the thread inside issue_token_set
    is_local,   \* <<entry>>: signing_key, kid locals of issue_token_set
    tokens,     \* access_token and id_token built by issue_token_set
    prov,       \* the latest constructor call, if OIDCProviderConfig(...): inputs, outcome
    rp          \* the latest constructor call, if OIDCRPConfig(...): inputs, outcome

\* the issuer and the relying party (OIDCProvider, OIDCRelyingParty)
VARIABLES
    provider,      \* <<config>> of the OIDCProvider instance, <<>> before it is built
    relying,       \* <<config>> of the OIDCRelyingParty instance, <<>> before it is built
    now,           \* the wall clock, in units of clock_skew
    issued,        \* <<[claims, access_token, id_token, gen]>>: the latest TokenSet
    _discovery,    \* self._discovery: <<>> (None) or <<document>>
    _jwks_client,  \* self._jwks_client: <<>> (None) or <<jwks_uri>>
    task           \* per coroutine: the running discover / validate_token call

rpVars == <<provider, relying, now, issued, _discovery, _jwks_client, task>>

\* the audit emitter (Emitter) and its sinks
VARIABLES
    _sinks,        \* self._sinks: the registered sinks, in registration order
    sink_log,      \* per sink: the calls it received, in order
    em_op,         \* the latest Emitter call: inputs, calls made, outcome
    em_ops         \* Emitter calls made (bounds the model)

emitterVars == <<_sinks, sink_log, em_op, em_ops>>

\* the batched sink (KillKrillSink), its caller threads and its flush thread
VARIABLES
    variant,       \* which KillKrillSink: "audit" (penguin_aaa) or "utils"
    sink_config,   \* self._config: [batch_size, max_retries]
    _buffer,       \* self._buffer: the buffered events, oldest first
    _lock,         \* self._lock: the thread holding it, "" when free
    _stopped,      \* self._stopped: the stop flag
    client_closed, \* utils: self._client.close() was called
    thr,           \* per thread: its position and the call it is running
    emitted,       \* events handed to emit so far
    batches,       \* every batch drained so far, in drain order
    net_log,       \* every POST attempt and every backoff sleep, in order
    closing        \* the close() call: its state and what it found

sinkVars == <<variant, sink_config, _buffer, _lock, _stopped, client_closed, thr,
              emitted, batches, net_log, closing>>

storeVars == <<store, algorithm, keys, file, gen, rots, restarts, rot_pc, pre,
               lastRot, hist, prevKeys, op, gsk>>
readerVars == <<rd_pc, rd_i, rd_acc, rd_cands>>
issuerVars == <<is_pc, is_local, tokens>>
keyStoreVars == <<store, algorithm, keys, file, gen, rots, restarts, rot_pc, pre,
                  lastRot, hist, prevKeys, op, gsk, rd_pc, rd_i, rd_acc, rd_cands,
                  is_pc, is_local, tokens>>
configVars == <<prov, rp>>
\* what the key store, its readers and the issuer never touch
notKeyStoreVars == <<prov, rp, rpVars, emitterVars, sinkVars>>
\* what the configuration constructors never touch
notConfigVars == <<keyStoreVars, rpVars, emitterVars, sinkVars>>
vars == <<store, algorithm, keys, file, gen, rots, restarts, rot_pc, pre,
          lastRot, hist, prevKeys, op, gsk, rd_pc, rd_i, rd_acc, rd_cands,
          is_pc, is_local, tokens, prov, rp, rpVars, emitterVars, sinkVars>>

\* what the issuer and the relying party never write
notRPVars == <<keyStoreVars, configVars, emitterVars, sinkVars>>
\* what the emitter never touches
notEmitterVars == <<keyStoreVars, configVars, rpVars, sinkVars>>
\* what the batched sink never touches
notSinkVars == <<keyStoreVars, configVars, rpVars, emitterVars>>

NoFile == [exists |-> FALSE, entries |-> <<>>]
NoOp == [name |-> "none", alg |-> <<>>, raised |-> "", generated |-> FALSE]
NoGsk == [called |-> FALSE, raised |-> "", ret |-> <<>>, newest |-> <<>>]
NoToken == [kid |-> 0, key |-> 0, token_use |-> ""]
NoTokens == [access |-> NoToken, id |-> NoToken]

Last(s) == s[Len(s)]

NoProv == [called |-> FALSE, issuer |-> Url(TRUE, "", "", <<>>), audiences |-> <<>>,
           algorithm |-> <<>>, raised |-> ""]
NoRP == [called |-> FALSE, issuer_url |-> Url(TRUE, "", "", <<>>),
         redirect_url |-> Url(TRUE, "", "", <<>>), algorithms |-> <<>>, raised |-> ""]

\* coroutines that call into the relying party
RPTasks == {"t1", "t2"}

IdleTask ==
    [pc |-> "idle", op |-> "", token |-> <<>>, raised |-> "", ret |-> <<>>,
     fetches |-> 0, lookups |-> 0, cached |-> <<>>, client |-> <<>>]

InitRelyingParty ==
    /\ provider = <<>>
    /\ relying = <<>>
    /\ now = 0
    /\ issued = <<>>
    /\ _discovery = <<>>
    /\ _jwks_client = <<>>
    /\ task = [t \in RPTasks |-> IdleTask]

InitEmitter ==
    /\ _sinks = <<>>
    /\ sink_log = [s \in SinkIds |-> <<>>]
    /\ em_op = NoEmitterOp
    /\ em_ops = 0

InitSink(variants, batch_sizes, retry_limits) ==
    /\ variant \in variants
    /\ sink_config \in [batch_size : batch_sizes, max_retries : retry_limits]
    /\ _buffer = <<>>
    /\ _lock = ""
    /\ _stopped = FALSE
    /\ client_closed = FALSE
    /\ thr = [t \in Threads |-> IF t = "bg" THEN [IdleThread EXCEPT !.pc = "wait", !.op = "bg"]
                                 ELSE IdleThread]
    /\ emitted = 0
    /\ batches = <<>>
    /\ net_log = <<>>
    /\ closing = NotClosing

\* no sink is involved
NoSink == InitSink({"audit"}, {1}, {0})

InitConfig ==
    /\ prov = NoProv
    /\ rp = NoRP

InitKeyStore(files) ==
    /\ store = "none"
    /\ algorithm = <<>>
    /\ keys = <<>>
    /\ file \in files
    /\ gen = Len(file.entries)
    /\ rots = 0
    /\ restarts = 0
    /\ rot_pc = "idle"
    /\ pre = <<>>
    /\ lastRot = <<>>
    /\ hist = <<>>
    /\ prevKeys = <<>>
    /\ op = NoOp
    /\ gsk = NoGsk
    /\ rd_pc = "idle"
    /\ rd_i = 0
    /\ rd_acc = <<>>
    /\ rd_cands = {}
    /\ is_pc = "idle"
    /\ is_local = <<>>
    /\ tokens = NoTokens

Init ==
    /\ InitKeyStore({NoFile} \cup {[exists |-> TRUE, entries |-> e] : e \in ExistingFiles})
    /\ InitConfig
    /\ InitRelyingParty
    /\ InitEmitter
    /\ NoSink

\* ------------------------------------------------------------------------
\* rotate_key
\* ------------------------------------------------------------------------
\* a kid that is not drawn anew for each key
NewEntry_StaleKid(alg, g) == [key |-> _generate_key(alg, g), kid |-> Uuid4(1)]

\* new_key = _generate_key(self._algorithm); new_kid = str(uuid.uuid4())
NewEntry(alg, g) == [key |-> _generate_key(alg, g), kid |-> Uuid4(g)]

\* self._keys.append((new_key, new_kid))
AppendKey(ks, entry) == Append(ks, entry)

\* if len(self._keys) > self._MAX_KEYS: self._keys.pop(0)
EvictOldest(ks) == IF Len(ks) > MAX_KEYS THEN Tail(ks) ELSE ks

\* the key list a whole rotate_key leaves behind
RotatedKeys(ks, entry) == EvictOldest(AppendKey(ks, entry))

\* MemoryKeyStore.__init__: no other thread holds the instance yet
ConstructMemory(alg) ==
    /\ store = "none"
    /\ rots < MaxRotations
    /\ rots' = rots + 1
    /\ IF _generate_key_ok(alg)
       THEN /\ store' = "memory"
            /\ algorithm' = alg
            /\ keys' = RotatedKeys(<<>>, NewEntry(alg, gen + 1))
            /\ gen' = gen + 1
            /\ lastRot' = <<NewEntry(alg, gen + 1)>>
            /\ hist' = <<NewEntry(alg, gen + 1)>>
            /\ op' = [name |-> "MemoryKeyStore", alg |-> alg, raised |-> "",
                      generated |-> TRUE]
       ELSE /\ op' = [name |-> "MemoryKeyStore", alg |-> alg, raised |-> "ValueError",
                      generated |-> FALSE]
            /\ UNCHANGED <<store, algorithm, keys, gen, lastRot, hist>>
    /\ UNCHANGED <<file, restarts, rot_pc, pre, prevKeys, gsk>>
    /\ UNCHANGED readerVars
    /\ UNCHANGED issuerVars
    /\ UNCHANGED notKeyStoreVars

\* FileKeyStore.__init__ -> _load_or_init
ConstructFile(alg) ==
    /\ store = "none"
    /\ rots < MaxRotations
    /\ IF file.exists
       THEN \* _load
            /\ IF LoadOk(file.entries)
               THEN /\ store' = "file"
                    /\ algorithm' = alg
                    /\ keys' = LoadEntries(file.entries)
                    /\ hist' = LoadEntries(file.entries)
                    /\ op' = [name |-> "FileKeyStore.load", alg |-> alg, raised |-> "",
                              generated |-> FALSE]
               ELSE /\ op' = [name |-> "FileKeyStore.load", alg |-> alg,
                              raised |-> "TypeError", generated |-> FALSE]
                    /\ UNCHANGED <<store, algorithm, keys, hist>>
            /\ UNCHANGED <<file, gen, rots, lastRot>>
       ELSE \* rotate_key, _save
            /\ rots' = rots + 1
            /\ IF _generate_key_ok(alg)
               THEN /\ store' = "file"
                    /\ algorithm' = alg
                    /\ keys' = RotatedKeys(<<>>, NewEntry(alg, gen + 1))
                    /\ gen' = gen + 1
                    /\ lastRot' = <<NewEntry(alg, gen + 1)>>
                    /\ hist' = <<NewEntry(alg, gen + 1)>>
                    /\ file' = [exists |-> TRUE,
                                entries |-> SaveEntries(RotatedKeys(<<>>, NewEntry(alg, gen + 1)))]
                    /\ op' = [name |-> "FileKeyStore.init", alg |-> alg, raised |-> "",
                              generated |-> TRUE]
               ELSE /\ op' = [name |-> "FileKeyStore.init", alg |-> alg,
                              raised |-> "ValueError", generated |-> FALSE]
                    /\ UNCHANGED <<store, algorithm, keys, gen, lastRot, hist, file>>
    /\ UNCHANGED <<restarts, rot_pc, pre, prevKeys, gsk>>
    /\ UNCHANGED readerVars
    /\ UNCHANGED issuerVars
    /\ UNCHANGED notKeyStoreVars

\* rotate_key up to and including the append; _generate_key raises first
RotateAppend ==
    /\ store # "none"
    /\ rot_pc = "idle"
    /\ rots < MaxRotations
    /\ rots' = rots + 1
    /\ IF _generate_key_ok(algorithm)
       THEN /\ keys' = AppendKey(keys, NewEntry(algorithm, gen + 1))
            /\ gen' = gen + 1
            /\ pre' = keys
            /\ lastRot' = <<NewEntry(algorithm, gen + 1)>>
            /\ hist' = Append(hist, NewEntry(algorithm, gen + 1))
            /\ rot_pc' = "appended"
            /\ op' = [name |-> "rotate_key", alg |-> algorithm, raised |-> "",
                      generated |-> TRUE]
            /\ rd_cands' = IF rd_pc = "iter"
                           THEN rd_cands \cup
                                {get_jwks(RotatedKeys(keys, NewEntry(algorithm, gen + 1)),
                                          algorithm)}
                           ELSE rd_cands
       ELSE /\ op' = [name |-> "rotate_key", alg |-> algorithm, raised |-> "ValueError",
                      generated |-> FALSE]
            /\ UNCHANGED <<keys, gen, pre, lastRot, hist, rot_pc, rd_cands>>
    /\ UNCHANGED <<store, algorithm, file, restarts, prevKeys, gsk>>
    /\ UNCHANGED <<rd_pc, rd_i, rd_acc>>
    /\ UNCHANGED issuerVars
    /\ UNCHANGED notKeyStoreVars

\* rotate_key: the length test and pop(0)
RotateEvict ==
    /\ rot_pc = "appended"
    /\ keys' = EvictOldest(keys)
    /\ rot_pc' = IF store = "file" THEN "evicted" ELSE "idle"
    /\ UNCHANGED <<store, algorithm, file, gen, rots, restarts, pre, lastRot, hist,
                   prevKeys, op, gsk>>
    /\ UNCHANGED readerVars
    /\ UNCHANGED issuerVars
    /\ UNCHANGED notKeyStoreVars

\* FileKeyStore.rotate_key: self._save()
RotateSave ==
    /\ rot_pc = "evicted"
    /\ file' = [exists |-> TRUE, entries |-> SaveEntries(keys)]
    /\ rot_pc' = "idle"
    /\ UNCHANGED <<store, algorithm, keys, gen, rots, restarts, pre, lastRot, hist,
                   prevKeys, op, gsk>>
    /\ UNCHANGED readerVars
    /\ UNCHANGED issuerVars
    /\ UNCHANGED notKeyStoreVars

\* ------------------------------------------------------------------------
\* get_signing_key
\* ------------------------------------------------------------------------
\* the oldest retained key instead of the newest
get_signing_key_Oldest(ks) == <<ks[1]>>

\* return self._keys[-1] (IndexError on an empty list), as <<entry>>
get_signing_key(ks) == <<ks[Len(ks)]>>

\* The three read operations (get_signing_key, get_jwks, issue_token_set)
\* write no shared state, so one reading thread at a time runs next to the
\* rotating thread.
ReaderIdle == rd_pc = "idle" /\ is_pc = "idle" /\ ~gsk.called

GetSigningKey ==
    /\ store # "none"
    /\ ReaderIdle
    /\ gsk' = IF keys = <<>>
              THEN [called |-> TRUE, raised |-> "IndexError", ret |-> <<>>,
                    newest |-> lastRot]
              ELSE [called |-> TRUE, raised |-> "", ret |-> get_signing_key(keys),
                    newest |-> lastRot]
    /\ UNCHANGED <<store, algorithm, keys, file, gen, rots, restarts, rot_pc, pre,
                   lastRot, hist, prevKeys, op>>
    /\ UNCHANGED readerVars
    /\ UNCHANGED issuerVars
    /\ UNCHANGED notKeyStoreVars

\* the caller takes the result (or the IndexError)
GetSigningKeyReturn ==
    /\ gsk.called
    /\ gsk' = NoGsk
    /\ UNCHANGED <<store, algorithm, keys, file, gen, rots, restarts, rot_pc, pre,
                   lastRot, hist, prevKeys, op>>
    /\ UNCHANGED readerVars
    /\ UNCHANGED issuerVars
    /\ UNCHANGED notKeyStoreVars

\* ------------------------------------------------------------------------
\* get_jwks, one list-iterator step at a time
\* ------------------------------------------------------------------------
\* the complete key lists of the store at this moment: the list as it is
\* between rotations; during a rotate_key the list it was entered with and
\* the list it will leave behind
CompleteLists ==
    IF rot_pc = "idle"
    THEN {get_jwks(keys, algorithm)}
    ELSE {get_jwks(pre, algorithm), get_jwks(RotatedKeys(pre, lastRot[1]), algorithm)}

JwksBegin ==
    /\ store # "none"
    /\ ReaderIdle
    /\ rd_pc' = "iter"
    /\ rd_i' = 0
    /\ rd_acc' = <<>>
    /\ rd_cands' = CompleteLists
    /\ UNCHANGED storeVars
    /\ UNCHANGED issuerVars
    /\ UNCHANGED notKeyStoreVars

\* for private_key, kid in self._keys: jwk_list.append(public_key_to_jwk(...))
JwksStep ==
    /\ rd_pc = "iter"
    /\ IF rd_i < Len(keys)
       THEN /\ rd_acc' = Append(rd_acc,
                    public_key_to_jwk(public_key(keys[rd_i + 1].key), keys[rd_i + 1].kid,
                                      algorithm))
            /\ rd_i' = rd_i + 1
            /\ rd_pc' = "iter"
       ELSE /\ rd_pc' = "done"
            /\ UNCHANGED <<rd_i, rd_acc>>
    /\ UNCHANGED rd_cands
    /\ UNCHANGED storeVars
    /\ UNCHANGED issuerVars
    /\ UNCHANGED notKeyStoreVars

\* return {"keys": jwk_list}
JwksReturn ==
    /\ rd_pc = "done"
    /\ rd_pc' = "idle"
    /\ rd_i' = 0
    /\ rd_acc' = <<>>
    /\ rd_cands' = {}
    /\ UNCHANGED storeVars
    /\ UNCHANGED issuerVars
    /\ UNCHANGED notKeyStoreVars

\* ------------------------------------------------------------------------
\* OIDCProvider.issue_token_set
\* ------------------------------------------------------------------------
\* jwt.encode(payload, signing_key, headers={"kid": kid})
jwt_encode(token_use, signing_key, kid) ==
    [kid |-> kid, key |-> signing_key.mat, token_use |-> token_use]

\* the store asked again for its signing key when the id token is signed
IdTokenSigner_Reread(local, ks) == ks[Len(ks)]

\* the entry whose key and kid go into the id token: the locals signing_key, kid
IdTokenSigner(local, ks) == local[1]

\* signing_key, kid = self._keystore.get_signing_key(); on an empty store the
\* call raises IndexError and issue_token_set ends with no state changed
IssueRead ==
    /\ store # "none"
    /\ ReaderIdle
    /\ keys # <<>>
    /\ is_local' = get_signing_key(keys)
    /\ is_pc' = "access"
    /\ tokens' = NoTokens
    /\ UNCHANGED storeVars
    /\ UNCHANGED readerVars
    /\ UNCHANGED notKeyStoreVars

IssueAccess ==
    /\ is_pc = "access"
    /\ tokens' = [tokens EXCEPT !.access =
                      jwt_encode("access", is_local[1].key, is_local[1].kid)]
    /\ is_pc' = "id"
    /\ UNCHANGED is_local
    /\ UNCHANGED storeVars
    /\ UNCHANGED readerVars
    /\ UNCHANGED notKeyStoreVars

IssueId ==
    /\ is_pc = "id"
    /\ tokens' = [tokens EXCEPT !.id =
                      jwt_encode("id", IdTokenSigner(is_local, keys).key,
                                 IdTokenSigner(is_local, keys).kid)]
    /\ is_pc' = "done"
    /\ UNCHANGED is_local
    /\ UNCHANGED storeVars
    /\ UNCHANGED readerVars
    /\ UNCHANGED notKeyStoreVars

\* return TokenSet(...)
IssueReturn ==
    /\ is_pc = "done"
    /\ is_pc' = "idle"
    /\ is_local' = <<>>
    /\ tokens' = NoTokens
    /\ UNCHANGED storeVars
    /\ UNCHANGED readerVars
    /\ UNCHANGED notKeyStoreVars

\* ------------------------------------------------------------------------
\* Process restart: the instance is dropped, the file stays
\* ------------------------------------------------------------------------
Destroy ==
    /\ store # "none"
    /\ rot_pc = "idle"
    /\ ReaderIdle
    /\ restarts < MaxRestarts
    /\ restarts' = restarts + 1
    /\ prevKeys' = IF store = "file" THEN <<keys>> ELSE prevKeys
    /\ store' = "none"
    /\ algorithm' = <<>>
    /\ keys' = <<>>
    /\ pre' = <<>>
    /\ lastRot' = <<>>
    /\ hist' = <<>>
    /\ op' = NoOp
    /\ gsk' = NoGsk
    /\ UNCHANGED <<file, gen, rots, rot_pc>>
    /\ UNCHANGED readerVars
    /\ UNCHANGED issuerVars
    /\ UNCHANGED notKeyStoreVars

Next ==
    \/ \E alg \in StoreAlgorithms : ConstructMemory(alg)
    \/ \E alg \in StoreAlgorithms : ConstructFile(alg)
    \/ RotateAppend
    \/ RotateEvict
    \/ RotateSave
    \/ GetSigningKey
    \/ GetSigningKeyReturn
    \/ JwksBegin
    \/ JwksStep
    \/ JwksReturn
    \/ IssueRead
    \/ IssueAccess
    \/ IssueId
    \/ IssueReturn
    \/ Destroy

Spec == Init /\ [][Next]_vars

\* ------------------------------------------------------------------------
\* Configuration objects: OIDCProviderConfig(...) and OIDCRPConfig(...)
\* ------------------------------------------------------------------------
NewProviderConfig(issuer, audiences, alg) ==
    /\ prov' = [called |-> TRUE, issuer |-> issuer, audiences |-> audiences,
                algorithm |-> alg, raised |-> ProviderPostInit(issuer, audiences, alg)]
    /\ rp' = NoRP
    /\ UNCHANGED notConfigVars

NewRPConfig(issuer_url, redirect_url, algs) ==
    /\ rp' = [called |-> TRUE, issuer_url |-> issuer_url, redirect_url |-> redirect_url,
              algorithms |-> algs, raised |-> RPPostInit(issuer_url, redirect_url, algs)]
    /\ prov' = NoProv
    /\ UNCHANGED notConfigVars

ConfigNext ==
    \/ \E issuer \in Urls, audiences \in AudienceLists, alg \in ConfigAlgorithms :
          NewProviderConfig(issuer, audiences, alg)
    \/ \E issuer_url \in Urls, redirect_url \in Urls, algs \in AlgorithmLists :
          NewRPConfig(issuer_url, redirect_url, algs)

\* no key store is involved
ConfigInit ==
    /\ InitKeyStore({NoFile})
    /\ InitConfig
    /\ InitRelyingParty
    /\ InitEmitter
    /\ NoSink

SpecConfig == ConfigInit /\ [][ConfigNext]_vars

\* no size limit at all
TooLong_Never(raw_token) == FALSE

\* if len(raw_token) > 8192: raise ValueError(...)
TooLong(raw_token) == raw_token.len > MAX_TOKEN_SIZE

\* a discover() that ignores the cached document
DiscoverCached_Never(discovery) == FALSE

\* if self._discovery is not None: return self._discovery
DiscoverCached(discovery) == discovery # <<>>

\* inputs of the constructors in the round-trip model
RPStoreAlgorithms == {RS256, ES256}
RPProviderAlgorithms == {RS256, PS256, ES256}
RPAlgorithmLists == {<<RS256>>, <<RS256, PS256, ES256>>}
RPAudienceLists == {<<"api">>}
RPClientIds == {"api", "other"}
TokenTtls == {1}

\* ------------------------------------------------------------------------
\* OIDCProvider and OIDCRelyingParty
\* ------------------------------------------------------------------------
\* OIDCProvider(OIDCProviderConfig(...), keystore)
NewProvider(alg, audiences, ttl) ==
    /\ provider = <<>>
    /\ store # "none"
    /\ ProviderPostInit(IssuerUrl, audiences, alg) = ""
    /\ provider' = <<[issuer |-> IssuerUrl, audiences |-> audiences, algorithm |-> alg,
                      token_ttl |-> ttl]>>
    /\ UNCHANGED <<relying, now, issued, _discovery, _jwks_client, task>>
    /\ UNCHANGED notRPVars

\* OIDCRelyingParty(OIDCRPConfig(...))
NewRelyingParty(algs, client_id) ==
    /\ relying = <<>>
    /\ RPPostInit(IssuerUrl, IssuerUrl, algs) = ""
    /\ relying' = <<[algorithms |-> algs, client_id |-> client_id]>>
    /\ _discovery' = <<>>
    /\ _jwks_client' = <<>>
    /\ UNCHANGED <<provider, now, issued, task>>
    /\ UNCHANGED notRPVars

\* time passes; the clock reads 0 until the first TokenSet is issued
Tick ==
    /\ issued # <<>>
    /\ now < MaxTime
    /\ now' = now + 1
    /\ UNCHANGED <<provider, relying, issued, _discovery, _jwks_client, task>>
    /\ UNCHANGED notRPVars

\* issue_token_set(claims), run between two steps of any rotation; the model
\* follows one TokenSet, issue_token_set leaves no state behind
IssueTokenSet(claims) ==
    /\ issued = <<>>
    /\ provider # <<>>
    /\ store # "none"
    /\ keys # <<>>
    /\ LET entry == get_signing_key(keys)[1]
           config == provider[1]
       IN IF JwtEncodeOk(entry.key, config.algorithm)
          THEN issued' =
                 <<[claims |-> claims, gen |-> gen,
                    access_token |-> JwtEncode(TokenPayload(config, claims, now, "access"),
                                               entry.key, config.algorithm, entry.kid),
                    id_token |-> JwtEncode(TokenPayload(config, claims, now, "id"),
                                           entry.key, config.algorithm, entry.kid)]>>
          ELSE issued' = <<>>
    /\ UNCHANGED <<provider, relying, now, _discovery, _jwks_client, task>>
    /\ UNCHANGED notRPVars

\* the JWKS the issuer serves at this moment
ServedJwks == IF store = "none" THEN <<>> ELSE get_jwks(keys, algorithm)

\* strings handed to validate_token
RawTokenKinds == {"oversized", "short", "access_token", "id_token", "tampered"}

RawToken(kind) ==
    IF kind = "oversized" THEN Garbage(MAX_TOKEN_SIZE + 1)
    ELSE IF kind = "short" THEN Garbage(1)
    ELSE IF kind = "access_token" THEN issued[1].access_token
    ELSE IF kind = "id_token" THEN issued[1].id_token
    ELSE Tampered(issued[1].access_token)

Begun(t, name, raw_token) ==
    [IdleTask EXCEPT !.op = name, !.token = raw_token, !.cached = _discovery,
                     !.client = _jwks_client]

\* discover(): up to the await of the GET
DiscoverBegin(t) ==
    /\ relying # <<>>
    /\ task[t].pc = "idle"
    /\ IF DiscoverCached(_discovery)
       THEN task' = [task EXCEPT ![t] = [Begun(t, "discover", <<>>) EXCEPT
                                            !.pc = "done", !.ret = _discovery]]
       ELSE task' = [task EXCEPT ![t] = [Begun(t, "discover", <<>>) EXCEPT
                                            !.pc = "discover_get"]]
    /\ UNCHANGED <<provider, relying, now, issued, _discovery, _jwks_client>>
    /\ UNCHANGED notRPVars

\* discover(): from the response of the GET to the return
DiscoverResume(t, response) ==
    /\ task[t].pc = "discover_get"
    /\ IF DiscoverError(response) # ""
       THEN /\ task' = [task EXCEPT ![t].pc = "done", ![t].fetches = @ + 1,
                                    ![t].raised = DiscoverError(response)]
            /\ UNCHANGED <<_discovery, _jwks_client>>
       ELSE /\ task' = [task EXCEPT ![t].pc = "done", ![t].fetches = @ + 1,
                                    ![t].ret = <<response.document>>]
            /\ _discovery' = <<response.document>>
            /\ _jwks_client' = NewJwksClient(response.document)
    /\ UNCHANGED <<provider, relying, now, issued>>
    /\ UNCHANGED notRPVars

\* validate_token(raw_token): up to the await inside discover(), or to the end
ValidateBegin(t, kind) ==
    /\ relying # <<>>
    /\ task[t].pc = "idle"
    /\ kind \in {"oversized", "short"} \/ issued # <<>>
    /\ LET raw_token == RawToken(kind)
           begun == Begun(t, "validate_token", <<raw_token>>)
           result == VerifyAndDecode(raw_token, ServedJwks, relying[1], now)
       IN IF TooLong(raw_token)
          THEN task' = [task EXCEPT ![t] = [begun EXCEPT !.pc = "done",
                                                         !.raised = "ValueError: exceeds maximum size"]]
          ELSE IF _jwks_client = <<>> /\ ~DiscoverCached(_discovery)
          THEN task' = [task EXCEPT ![t] = [begun EXCEPT !.pc = "validate_get"]]
          ELSE IF _jwks_client = <<>>
          THEN task' = [task EXCEPT ![t] = [begun EXCEPT !.pc = "done",
                                                         !.raised = "AssertionError"]]
          ELSE task' = [task EXCEPT ![t] = [begun EXCEPT !.pc = "done", !.lookups = 1,
                                                         !.raised = result.raised,
                                                         !.ret = result.ret]]
    /\ UNCHANGED <<provider, relying, now, issued, _discovery, _jwks_client>>
    /\ UNCHANGED notRPVars

\* validate_token(raw_token): from the response of discover()'s GET to the end
ValidateResume(t, response) ==
    /\ task[t].pc = "validate_get"
    /\ LET result == VerifyAndDecode(task[t].token[1], ServedJwks, relying[1], now)
       IN IF DiscoverError(response) # ""
          THEN /\ task' = [task EXCEPT ![t].pc = "done", ![t].fetches = @ + 1,
                                       ![t].raised = DiscoverError(response)]
               /\ UNCHANGED <<_discovery, _jwks_client>>
          ELSE /\ task' = [task EXCEPT ![t].pc = "done", ![t].fetches = @ + 1,
                                       ![t].lookups = 1, ![t].raised = result.raised,
                                       ![t].ret = result.ret]
               /\ _discovery' = <<response.document>>
               /\ _jwks_client' = NewJwksClient(response.document)
    /\ UNCHANGED <<provider, relying, now, issued>>
    /\ UNCHANGED notRPVars

\* build_authorization_url(state, nonce)
BuildAuthorizationUrl(t) ==
    /\ relying # <<>>
    /\ task[t].pc = "idle"
    /\ IF _discovery = <<>>
       THEN task' = [task EXCEPT ![t] = [Begun(t, "build_authorization_url", <<>>) EXCEPT
                                            !.pc = "done", !.raised = "RuntimeError"]]
       ELSE task' = [task EXCEPT ![t] = [Begun(t, "build_authorization_url", <<>>) EXCEPT
                                            !.pc = "done", !.ret = _discovery]]
    /\ UNCHANGED <<provider, relying, now, issued, _discovery, _jwks_client>>
    /\ UNCHANGED notRPVars

\* the caller takes the result; the coroutine is free again
TaskReturn(t) ==
    /\ task[t].pc = "done"
    /\ task' = [task EXCEPT ![t] = IdleTask]
    /\ UNCHANGED <<provider, relying, now, issued, _discovery, _jwks_client>>
    /\ UNCHANGED notRPVars

\* the answers of the discovery endpoint
OkResponse(edition) ==
    [ok |-> TRUE, document |-> Document(edition, required_fields \cup {"userinfo_endpoint"})]

RoundTripResponses == {OkResponse("first"), [ok |-> FALSE, document |-> Document("first", {})]}

\* issuer, key store and one validating coroutine
RoundTripNext ==
    \/ \E alg \in RPStoreAlgorithms : ConstructMemory(alg)
    \/ RotateAppend
    \/ RotateEvict
    \/ \E alg \in RPProviderAlgorithms, audiences \in RPAudienceLists, ttl \in TokenTtls :
          NewProvider(alg, audiences, ttl)
    \/ \E algs \in RPAlgorithmLists, client_id \in RPClientIds :
          NewRelyingParty(algs, client_id)
    \/ Tick
    \/ \E claims \in ClaimsInputs : IssueTokenSet(claims)
    \/ \E kind \in RawTokenKinds : ValidateBegin("t1", kind)
    \/ \E response \in RoundTripResponses : ValidateResume("t1", response)
    \/ TaskReturn("t1")

\* the issuer starts with no key file
RoundTripInit ==
    /\ InitKeyStore({NoFile})
    /\ InitConfig
    /\ InitRelyingParty
    /\ InitEmitter
    /\ NoSink

SpecRoundTrip == RoundTripInit /\ [][RoundTripNext]_vars

\* the relying party alone, called from two coroutines
RPNext ==
    \/ \E algs \in RPAlgorithmLists, client_id \in RPClientIds :
          NewRelyingParty(algs, client_id)
    \/ \E t \in RPTasks : DiscoverBegin(t)
    \/ \E t \in RPTasks, response \in Responses : DiscoverResume(t, response)
    \/ \E t \in RPTasks, kind \in {"oversized", "short"} : ValidateBegin(t, kind)
    \/ \E t \in RPTasks, response \in Responses : ValidateResume(t, response)
    \/ \E t \in RPTasks : BuildAuthorizationUrl(t)
    \/ \E t \in RPTasks : TaskReturn(t)

RPInit ==
    /\ InitKeyStore({NoFile})
    /\ InitConfig
    /\ InitRelyingParty
    /\ InitEmitter
    /\ NoSink

SpecRP == RPInit /\ [][RPNext]_vars

\* ------------------------------------------------------------------------
\* Emitter
\* ------------------------------------------------------------------------
\* Emitter(*sinks)
NewEmitter(sinks) ==
    /\ _sinks = <<>>
    /\ IF sinks = <<>>
       THEN /\ em_op' = [NoEmitterOp EXCEPT !.name = "Emitter", !.raised = "ValueError"]
            /\ UNCHANGED _sinks
       ELSE /\ em_op' = [NoEmitterOp EXCEPT !.name = "Emitter"]
            /\ _sinks' = sinks
    /\ UNCHANGED <<sink_log, em_ops>>
    /\ UNCHANGED notEmitterVars

\* one fan-out over self._sinks: the calls land in the sinks' logs
FanOut(name, event, fails, visits, raises) ==
    /\ \A i \in 1..MaxSinks : fails[i] => i <= Len(_sinks)
    /\ em_ops < MaxEmitterOps
    /\ em_ops' = em_ops + 1
    /\ sink_log' = [s \in SinkIds |->
                       sink_log[s] \o Received(s, _sinks, visits, fails, name, event)]
    /\ em_op' = [name |-> name, event |-> event, fails |-> fails,
                 order |-> CallOrder(_sinks, visits),
                 errors |-> CollectedErrors(_sinks, visits, fails),
                 raised |-> IF raises THEN "ExceptionGroup" ELSE ""]
    /\ UNCHANGED _sinks
    /\ UNCHANGED notEmitterVars

\* Emitter.emit(event)
EmitterEmit(event, fails) ==
    /\ _sinks # <<>>
    /\ FanOut("emit", event, fails, EmitVisits(_sinks, fails),
              EmitRaises(CollectedErrors(_sinks, EmitVisits(_sinks, fails), fails), _sinks))

\* Emitter.flush()
EmitterFlush(fails) ==
    /\ _sinks # <<>>
    /\ FanOut("flush", "", fails, FlushVisits(_sinks, fails),
              QuietRaises(CollectedErrors(_sinks, FlushVisits(_sinks, fails), fails)))

\* Emitter.close()
EmitterClose(fails) ==
    /\ _sinks # <<>>
    /\ FanOut("close", "", fails, CloseVisits(_sinks, fails),
              QuietRaises(CollectedErrors(_sinks, CloseVisits(_sinks, fails), fails)))

EmitterNext ==
    \/ \E sinks \in SinkLists : NewEmitter(sinks)
    \/ \E event \in AuditEvents, fails \in FailurePatterns : EmitterEmit(event, fails)
    \/ \E fails \in FailurePatterns : EmitterFlush(fails)
    \/ \E fails \in FailurePatterns : EmitterClose(fails)

EmitterInit ==
    /\ InitKeyStore({NoFile})
    /\ InitConfig
    /\ InitRelyingParty
    /\ InitEmitter
    /\ NoSink

SpecEmitter == EmitterInit /\ [][EmitterNext]_vars

\* ------------------------------------------------------------------------
\* KillKrillSink
\* ------------------------------------------------------------------------
\* a drain that copies the buffer and leaves it as it was
Cleared_Kept(buffer) == buffer

\* self._buffer.clear() (audit); self._buffer.events = [] (utils)
Cleared(buffer) == SubSeq(buffer, 1, 0)

\* the thread record when its call ends: a caller is idle again, the flush
\* thread waits again, or is dead when an exception left its loop
Ended(t, raised) ==
    IF t = "bg"
    THEN [IdleThread EXCEPT !.pc = IF raised = "" THEN "wait" ELSE "dead", !.op = "bg",
                            !.raised = raised]
    ELSE IdleThread

\* close() ends when its final flush ends
ClosingAfter(t, raised, log) ==
    IF thr[t].op = "close"
    THEN [closing EXCEPT !.state = IF raised = "" THEN "returned" ELSE "raised",
                         !.log_len = Len(log), !.drained = Len(batches)]
    ELSE closing

\* utils: close() ends with self._client.close()
ClientAfter(t, raised) ==
    client_closed \/ (thr[t].op = "close" /\ raised = "" /\ variant = "utils")

\* the call of thread t ends, normally or with an exception
EndCall(t, raised, log) ==
    /\ thr' = [thr EXCEPT ![t] = Ended(t, raised)]
    /\ closing' = ClosingAfter(t, raised, log)
    /\ client_closed' = ClientAfter(t, raised)

\* a call of another thread begins while close() runs
Disturbed(t) ==
    IF closing.state = "called" /\ closing.by # t
    THEN [closing EXCEPT !.quiet = FALSE]
    ELSE closing

\* emit(event): "with self._lock:" entered
EmitLock(t) ==
    /\ thr[t].pc = "idle"
    /\ emitted < MaxEvents
    /\ _lock = ""
    /\ _lock' = t
    /\ emitted' = emitted + 1
    /\ thr' = [thr EXCEPT ![t] = [IdleThread EXCEPT !.pc = "emit_locked", !.op = "emit",
                                     !.event = emitted + 1]]
    /\ closing' = Disturbed(t)
    /\ UNCHANGED <<variant, sink_config, _buffer, _stopped, client_closed, batches, net_log>>
    /\ UNCHANGED notSinkVars

\* emit(event): append, compute should_flush, leave the with block
EmitAppend(t) ==
    /\ thr[t].pc = "emit_locked"
    /\ _buffer' = Append(_buffer, thr[t].event)
    /\ _lock' = ""
    /\ IF should_flush(_buffer', sink_config.batch_size)
       THEN thr' = [thr EXCEPT ![t].pc = "flush_lock", ![t].flush = TRUE]
       ELSE thr' = [thr EXCEPT ![t] = Ended(t, "")]
    /\ UNCHANGED <<variant, sink_config, _stopped, client_closed, emitted, batches,
                   net_log, closing>>
    /\ UNCHANGED notSinkVars

\* flush(): _flush_now, "with self._lock:" entered
FlushBegin(t) ==
    /\ thr[t].pc = "idle"
    /\ _lock = ""
    /\ _lock' = t
    /\ thr' = [thr EXCEPT ![t] = [IdleThread EXCEPT !.pc = "flush_locked", !.op = "flush"]]
    /\ closing' = Disturbed(t)
    /\ UNCHANGED <<variant, sink_config, _buffer, _stopped, client_closed, emitted,
                   batches, net_log>>
    /\ UNCHANGED notSinkVars

\* emit(event): if should_flush: _flush_now, "with self._lock:" entered
FlushLock(t) ==
    /\ thr[t].pc = "flush_lock"
    /\ _lock = ""
    /\ _lock' = t
    /\ thr' = [thr EXCEPT ![t].pc = "flush_locked"]
    /\ UNCHANGED <<variant, sink_config, _buffer, _stopped, client_closed, emitted,
                   batches, net_log, closing>>
    /\ UNCHANGED notSinkVars

\* _flush_now: return on an empty buffer, else copy and clear; leave the with block
FlushDrain(t) ==
    /\ thr[t].pc = "flush_locked"
    /\ _lock' = ""
    /\ IF _buffer = <<>>
       THEN /\ EndCall(t, "", net_log)
            /\ UNCHANGED <<_buffer, batches>>
       ELSE /\ batches' = Append(batches, [events |-> _buffer, by |-> t, op |-> thr[t].op])
            /\ _buffer' = Cleared(_buffer)
            /\ thr' = [thr EXCEPT ![t].pc = "dumps", ![t].batch = Len(batches) + 1]
            /\ UNCHANGED <<closing, client_closed>>
    /\ UNCHANGED <<variant, sink_config, _stopped, emitted, net_log>>
    /\ UNCHANGED notSinkVars

\* _flush_now: payload = json.dumps(batch, ...), which accepts the batch or
\* raises for an event it cannot serialise; then the first iteration of the loop
Dumps(t, accepted) ==
    /\ thr[t].pc = "dumps"
    /\ IF ~accepted
       THEN EndCall(t, "TypeError", net_log)
       ELSE IF LoopRuns(FirstAttempt(variant), sink_config.max_retries)
       THEN /\ thr' = [thr EXCEPT ![t].pc = "post", ![t].attempt = FirstAttempt(variant)]
            /\ UNCHANGED <<closing, client_closed>>
       ELSE EndCall(t, "", net_log)
    /\ UNCHANGED <<variant, sink_config, _buffer, _lock, _stopped, emitted, batches,
                   net_log>>
    /\ UNCHANGED notSinkVars

\* what the POST of thread t ends with when the server answers with outcome
PostResult(outcome) ==
    IF variant = "utils" /\ client_closed THEN "RuntimeError" ELSE outcome

\* one iteration of the delivery loop: the POST and what follows it
Post(t, outcome) ==
    /\ thr[t].pc = "post"
    /\ LET result == PostResult(outcome)
           attempt == thr[t].attempt
           posted == [kind |-> "post", by |-> t, batch |-> thr[t].batch,
                      attempt |-> attempt, outcome |-> result, secs |-> 0]
           slept == [kind |-> "sleep", by |-> t, batch |-> thr[t].batch,
                     attempt |-> attempt, outcome |-> "", secs |-> Backoff(variant, attempt)]
       IN IF result = "ok"
          THEN /\ net_log' = Append(net_log, posted)
               /\ EndCall(t, "", Append(net_log, posted))
          ELSE IF ~Caught(variant, result)
          THEN /\ net_log' = Append(net_log, posted)
               /\ EndCall(t, result, Append(net_log, posted))
          ELSE IF SleepsAfter(attempt, sink_config.max_retries)
          THEN /\ net_log' = net_log \o <<posted, slept>>
               /\ thr' = [thr EXCEPT ![t].pc = "sleep"]
               /\ UNCHANGED <<closing, client_closed>>
          ELSE IF LoopRuns(attempt + 1, sink_config.max_retries)
          THEN /\ net_log' = Append(net_log, posted)
               /\ thr' = [thr EXCEPT ![t].attempt = attempt + 1]
               /\ UNCHANGED <<closing, client_closed>>
          ELSE /\ net_log' = Append(net_log, posted)
               /\ EndCall(t, "", Append(net_log, posted))
    /\ UNCHANGED <<variant, sink_config, _buffer, _lock, _stopped, emitted, batches>>
    /\ UNCHANGED notSinkVars

\* time.sleep(backoff) returns, the loop goes to its next iteration
SleepDone(t) ==
    /\ thr[t].pc = "sleep"
    /\ thr' = [thr EXCEPT ![t].pc = "post", ![t].attempt = @ + 1]
    /\ UNCHANGED <<variant, sink_config, _buffer, _lock, _stopped, client_closed, emitted,
                   batches, net_log, closing>>
    /\ UNCHANGED notSinkVars

\* _background_flush: wait(timeout=flush_interval) timed out, the flag is not
\* set; _flush_now, "with self._lock:" entered
BgWake ==
    /\ thr["bg"].pc = "wait"
    /\ ~_stopped
    /\ _lock = ""
    /\ _lock' = "bg"
    /\ thr' = [thr EXCEPT !["bg"].pc = "flush_locked"]
    /\ UNCHANGED <<variant, sink_config, _buffer, _stopped, client_closed, emitted,
                   batches, net_log, closing>>
    /\ UNCHANGED notSinkVars

\* _background_flush: wait() found the flag set, the thread ends
BgExit ==
    /\ thr["bg"].pc = "wait"
    /\ _stopped
    /\ thr' = [thr EXCEPT !["bg"] = [IdleThread EXCEPT !.pc = "dead", !.op = "bg"]]
    /\ UNCHANGED <<variant, sink_config, _buffer, _lock, _stopped, client_closed, emitted,
                   batches, net_log, closing>>
    /\ UNCHANGED notSinkVars

\* close(): self._stopped.set()
CloseBegin(t) ==
    /\ thr[t].pc = "idle"
    /\ closing.state = "open"
    /\ _stopped' = TRUE
    /\ thr' = [thr EXCEPT ![t] = [IdleThread EXCEPT !.pc = "join", !.op = "close"]]
    /\ closing' = [NotClosing EXCEPT !.state = "called", !.by = t, !.buffered = _buffer,
                                     !.quiet = \A c \in Callers \ {t} : thr[c].pc = "idle"]
    /\ UNCHANGED <<variant, sink_config, _buffer, _lock, client_closed, emitted, batches,
                   net_log>>
    /\ UNCHANGED notSinkVars

\* close(): join() returns because the flush thread has ended; _flush_now,
\* "with self._lock:" entered
CloseJoin(t) ==
    /\ thr[t].pc = "join"
    /\ thr["bg"].pc = "dead"
    /\ _lock = ""
    /\ _lock' = t
    /\ thr' = [thr EXCEPT ![t].pc = "flush_locked"]
    /\ UNCHANGED <<variant, sink_config, _buffer, _stopped, client_closed, emitted,
                   batches, net_log, closing>>
    /\ UNCHANGED notSinkVars

\* The flush thread can outlast join(timeout=...) only while it retries: the first
\* POST takes at most the request timeout, which the join timeout exceeds.
JoinMayTimeOut ==
    /\ thr["bg"].pc \in {"post", "sleep"}
    /\ thr["bg"].attempt > FirstAttempt(variant)

\* close(): join() returns because its timeout has passed; _flush_now,
\* "with self._lock:" entered
CloseJoinTimeout(t) ==
    /\ thr[t].pc = "join"
    /\ JoinMayTimeOut
    /\ _lock = ""
    /\ _lock' = t
    /\ thr' = [thr EXCEPT ![t].pc = "flush_locked"]
    /\ closing' = [closing EXCEPT !.timed_out = TRUE]
    /\ UNCHANGED <<variant, sink_config, _buffer, _stopped, client_closed, emitted,
                   batches, net_log>>
    /\ UNCHANGED notSinkVars

SinkNext ==
    \/ \E t \in Callers : EmitLock(t)
    \/ \E t \in Callers : EmitAppend(t)
    \/ \E t \in Callers : FlushBegin(t)
    \/ \E t \in Callers : FlushLock(t)
    \/ \E t \in Threads : FlushDrain(t)
    \/ \E t \in Threads, accepted \in BOOLEAN : Dumps(t, accepted)
    \/ \E t \in Threads, outcome \in PostOutcomes : Post(t, outcome)
    \/ \E t \in Threads : SleepDone(t)
    \/ BgWake
    \/ BgExit
    \/ \E t \in Callers : CloseBegin(t)
    \/ \E t \in Callers : CloseJoin(t)
    \/ \E t \in Callers : CloseJoinTimeout(t)

SinkInit ==
    /\ InitKeyStore({NoFile})
    /\ InitConfig
    /\ InitRelyingParty
    /\ InitEmitter
    /\ InitSink(SinkVariants, BatchSizes, RetryLimits)

SpecSink == SinkInit /\ [][SinkNext]_vars

\* Every thread that is inside a call keeps running, and the flush thread's
\* wait() keeps timing out: the steps inside emit, flush, close and the flush
\* loop are taken when they stay possible, and a thread that needs the buffer
\* lock gets it when the lock is free again and again.
SinkFairness ==
    /\ SF_vars(BgWake)
    /\ WF_vars(BgExit)
    /\ \A t \in Threads :
          /\ WF_vars(FlushDrain(t))
          /\ WF_vars(\E accepted \in BOOLEAN : Dumps(t, accepted))
          /\ WF_vars(\E outcome \in PostOutcomes : Post(t, outcome))
          /\ WF_vars(SleepDone(t))
    /\ \A t \in Callers :
          /\ WF_vars(EmitAppend(t))
          /\ SF_vars(FlushLock(t))
          /\ SF_vars(CloseJoin(t))

SpecSinkLive == SinkInit /\ [][SinkNext]_vars /\ SinkFairness

TypeOK ==
    /\ store \in {"none", "memory", "file"}
    /\ rot_pc \in {"idle", "appended", "evicted"}
    /\ rd_pc \in {"idle", "iter", "done"}
    /\ is_pc \in {"idle", "access", "id", "done"}
    /\ Len(keys) <= MaxFileKeys + 1

\* ------------------------------------------------------------------------
\* Properties of the key stores
\* ------------------------------------------------------------------------
Min(a, b) == IF a < b THEN a ELSE b

\* the last n elements of a sequence
LastN(s, n) == SubSeq(s, Len(s) - n + 1, Len(s))

Kids(ks) == {ks[i].kid : i \in 1..Len(ks)}

\* the store is between rotations
Quiescent == store # "none" /\ rot_pc = "idle"

C2_NeverEmpty ==
    store # "none" => /\ Len(keys) >= 1
                      /\ gsk.raised = ""

\* C3: once rotate_key has run on a store, get_signing_key returns the key
\* and kid that the most recent rotate_key created, never an older one.
C3_SignerIsNewest ==
    (gsk.called /\ gsk.newest # <<>>) => /\ gsk.raised = ""
                                         /\ gsk.ret = gsk.newest

C3_Witness ==
    /\ gsk.called
    /\ gsk.newest # <<>>
    /\ Len(hist) > MAX_KEYS
    /\ Len(keys) = MAX_KEYS
    /\ gsk.ret[1].kid = Uuid4(gen)

\* C4: no two retained keys share a kid, and the kid that get_signing_key
\* returns after a rotate_key is the kid that call assigned, which was
\* not among the kids retained when the call was entered (so it differs from
\* the signing kid before the call).
C4_KidsFresh ==
    /\ \A i, j \in 1..Len(keys) : i # j => keys[i].kid # keys[j].kid
    /\ (store # "none" /\ lastRot # <<>>) =>
           /\ get_signing_key(keys)[1].kid = lastRot[1].kid
           /\ lastRot[1].kid \notin Kids(pre)

C4_Witness ==
    /\ Quiescent
    /\ op.name = "rotate_key"
    /\ Len(pre) = MAX_KEYS
    /\ Len(keys) = MAX_KEYS
    /\ Len(hist) > MAX_KEYS + 1

\* C5: between operations get_jwks lists, oldest first, exactly the last
\* min(n, MAX_KEYS) of the n keys the store was given (a key is published
\* through the 2 rotations after its own and gone after the third).
C5_JwksIsLastThree ==
    Quiescent =>
        get_jwks(keys, algorithm) =
            get_jwks(LastN(hist, Min(Len(hist), MAX_KEYS)), algorithm)

\* C6: constructing a FileKeyStore on the path of an earlier FileKeyStore
\* yields the (kid, key) sequence the earlier store held, in the same order,
\* generates no key and leaves the file as it was.
C6_ReloadRoundTrip ==
    [][(store = "none" /\ store' = "file" /\ prevKeys # <<>>) =>
           /\ keys' = prevKeys[1]
           /\ gen' = gen
           /\ file' = file]_vars

C6_Witness ==
    /\ store = "file"
    /\ op.name = "FileKeyStore.load"
    /\ prevKeys # <<>>
    /\ lastRot = <<>>
    /\ rots >= MAX_KEYS + 1
    /\ Len(keys) = MAX_KEYS
    /\ get_signing_key(keys)[1].kid = Uuid4(gen)

\* C7: a get_jwks that runs next to a rotate_key returns one of the complete
\* key lists the store held during the call (before or after the rotation).
C7_NoTornRead ==
    rd_pc = "done" => rd_acc \in rd_cands

\* C8: constructing a store or calling rotate_key with an algorithm string
\* outside the supported set raises, and no key is generated for it.
C8_UnsupportedRaises ==
    (op.name # "none" /\ op.alg \notin SupportedAlgorithms) =>
        /\ op.raised # ""
        /\ ~op.generated

\* C10: the access token and the id token of one issue_token_set call are
\* signed with the same key and carry the kid that its get_signing_key call
\* returned, whatever rotate_key does meanwhile.
C10_OneKeyPerTokenSet ==
    is_pc = "done" =>
        /\ tokens.access.key = is_local[1].key.mat
        /\ tokens.id.key = is_local[1].key.mat
        /\ tokens.access.kid = is_local[1].kid
        /\ tokens.id.kid = is_local[1].kid

C10_Witness ==
    /\ is_pc = "done"
    /\ tokens.access.token_use = "access"
    /\ tokens.id.token_use = "id"
    /\ get_signing_key(keys)[1].kid # is_local[1].kid

\* ------------------------------------------------------------------------
\* Properties of the configuration objects
\* ------------------------------------------------------------------------
Forbidden == {AlgNone, HS256}

\* C9: OIDCProviderConfig with algorithm none or HS256, and OIDCRPConfig with
\* none or HS256 anywhere in algorithms, raise for every value of the other
\* fields.
C9_ForbiddenAlgorithmsRaise ==
    /\ (prov.called /\ prov.algorithm \in Forbidden) => prov.raised # ""
    /\ (rp.called /\ \E i \in 1..Len(rp.algorithms) : rp.algorithms[i] \in Forbidden) =>
           rp.raised # ""

C9_Witness ==
    /\ rp.called
    /\ validate_https_url(rp.issuer_url) = ""
    /\ validate_https_url(rp.redirect_url) = ""
    /\ rp.algorithms = <<RS256, HS256>>
    /\ rp.raised = "ValueError: not allowed"

\* ------------------------------------------------------------------------
\* Properties of the issuer and the relying party
\* ------------------------------------------------------------------------
\* the tokens of the TokenSet the model follows
IssuedTokens == IF issued = <<>> THEN {} ELSE {issued[1].access_token, issued[1].id_token}

\* the relying party is configured for this issuer: it accepts the issuer's
\* algorithm and its client_id is one of the issuer's audiences
Matched ==
    /\ provider # <<>>
    /\ relying # <<>>
    /\ InSeq(provider[1].algorithm, relying[1].algorithms)
    /\ InSeq(relying[1].client_id, provider[1].audiences)

\* no key was generated since the TokenSet was issued
SnapshotIsImmediate == issued # <<>> /\ gen = issued[1].gen

\* in this step coroutine t finishes validate_token of an issued, unexpired token
\* against the JWKS served right after issuance, discovery having succeeded
ValidatesIssued(t) ==
    /\ task[t].pc # "done"
    /\ task'[t].pc = "done"
    /\ task'[t].op = "validate_token"
    /\ task'[t].token[1] \in IssuedTokens
    /\ task'[t].raised \notin {"HTTPStatusError", "ValueError: missing required fields"}
    /\ task'[t].token[1].payload.exp > now - clock_skew
    /\ SnapshotIsImmediate
    /\ Matched

\* validate_token returned Claims with the sub, tenant and roles that were issued
Recovered(t) ==
    /\ task'[t].raised = ""
    /\ task'[t].ret # <<>>
    /\ task'[t].ret[1].sub = issued[1].claims.sub
    /\ task'[t].ret[1].tenant = issued[1].claims.tenant
    /\ task'[t].ret[1].roles = issued[1].claims.roles

ResolvesAndVerifies ==
    (store # "none" /\ SnapshotIsImmediate) =>
        \A token \in IssuedTokens :
            /\ MatchingJwks(token, ServedJwks) # <<>>
            /\ SignatureVerifies(token, MatchingJwks(token, ServedJwks)[1])

Oversized(t) ==
    /\ task[t].op = "validate_token"
    /\ task[t].token[1].len > MAX_TOKEN_SIZE

\* C13: validate_token of a token longer than 8192 characters raises at once:
\* no discovery fetch, no JWKS lookup, no change of the validator's state,
\* whether or not a discovery document is cached.
C13_OversizedRejectedFirst ==
    /\ [](\A t \in RPTasks :
            Oversized(t) =>
                /\ task[t].pc = "done"
                /\ task[t].raised = "ValueError: exceeds maximum size"
                /\ task[t].ret = <<>>
                /\ task[t].fetches = 0
                /\ task[t].lookups = 0)
    /\ [][\A t \in RPTasks :
            (task'[t] # task[t] /\ task'[t].op = "validate_token"
                /\ task'[t].token[1].len > MAX_TOKEN_SIZE)
            => UNCHANGED <<_discovery, _jwks_client>>]_vars

\* an oversized token was rejected in state Uninitialized and another in Discovered
C13_Witness ==
    /\ Oversized("t1")
    /\ task["t1"].pc = "done"
    /\ task["t1"].cached = <<>>
    /\ Oversized("t2")
    /\ task["t2"].pc = "done"
    /\ task["t2"].cached # <<>>

\* ------------------------------------------------------------------------
\* Properties of the Emitter
\* ------------------------------------------------------------------------
\* how often sink s is registered
Registrations(s) == Cardinality({i \in 1..Len(_sinks) : _sinks[i] = s})

\* 1, 2, ..., n
Positions(n) == [i \in 1..n |-> i]

\* this step is a fan-out of the named kinds
FanOutStep(names) == em_ops' = em_ops + 1 /\ em_op'.name \in names

\* in this step every registered sink got exactly one call per registration
EachSinkCalledOnce(event) ==
    \A s \in SinkIds :
        /\ Len(sink_log'[s]) = Len(sink_log[s]) + Registrations(s)
        /\ SubSeq(sink_log'[s], 1, Len(sink_log[s])) = sink_log[s]
        /\ \A k \in (Len(sink_log[s]) + 1)..Len(sink_log'[s]) :
              /\ sink_log'[s][k].method = em_op'.name
              /\ sink_log'[s][k].event = event

\* C14: Emitter.emit(event) calls emit(event) on every registered sink exactly
\* once, in registration order, whichever of the sinks raise.
C14_EmitReachesEverySink ==
    [][FanOutStep({"emit"}) =>
          (em_op'.order = _sinks /\ EachSinkCalledOnce(em_op'.event))]_vars

\* the first sink raised and the ones behind it were still called
C14_Witness ==
    /\ em_op.name = "emit"
    /\ Len(_sinks) = MaxSinks
    /\ em_op.fails[1]
    /\ ~em_op.fails[Len(_sinks)]
    /\ em_op.order = _sinks
    /\ em_op.raised = ""

\* C15: Emitter.emit raises exactly when every sink raised, and the aggregate
\* then holds one error per sink in registration order; if at least one sink
\* succeeded the call returns normally.
C15_RaisesIffAllFailed ==
    em_op.name = "emit" =>
        /\ (em_op.raised # "") <=> (\A i \in 1..Len(_sinks) : em_op.fails[i])
        /\ (em_op.raised # "") =>
              (em_op.raised = "ExceptionGroup" /\ em_op.errors = Positions(Len(_sinks)))

\* both sinks of an emitter raised and emit raised the aggregate of two errors
C15_Witness ==
    /\ em_op.name = "emit"
    /\ Len(_sinks) = 2
    /\ _sinks[1] # _sinks[2]
    /\ em_op.raised = "ExceptionGroup"
    /\ em_op.errors = <<1, 2>>

\* C16: Emitter.flush() and Emitter.close() call flush / close on every
\* registered sink in registration order and never raise, whatever the sinks raise.
C16_FlushCloseBestEffort ==
    [][FanOutStep({"flush", "close"}) =>
          /\ em_op'.order = _sinks
          /\ EachSinkCalledOnce("")
          /\ em_op'.raised = ""]_vars

\* every sink raised from close() and close() returned normally
C16_Witness ==
    /\ em_op.name = "close"
    /\ Len(_sinks) >= 2
    /\ \A i \in 1..Len(_sinks) : em_op.fails[i]
    /\ em_op.order = _sinks
    /\ em_op.raised = ""

\* ------------------------------------------------------------------------
\* KillKrillSink: delivery, close and the buffer lock
\* ------------------------------------------------------------------------
\* the POST attempts and backoff waits of batch b, in the order they happened
BatchLog(b) == SelectSeq(net_log, LAMBDA e : e.batch = b)

\* the POST attempts of batch b
Posts(b) == SelectSeq(net_log, LAMBDA e : e.batch = b /\ e.kind = "post")

\* delivery of batch b has ended: no thread is working on it
Delivered(b) == \A t \in Threads : thr[t].batch # b

\* what delivery of one batch looks like in the audit sink
DeliveryPattern(b) ==
    LET log == BatchLog(b)
        posts == Posts(b)
    IN /\ Len(posts) <= 1 + sink_config.max_retries
       /\ \A i \in 1..Len(posts) : posts[i].attempt = i - 1
       /\ \A i \in 1..Len(log) :
             /\ (log[i].kind = "post" /\ log[i].outcome = "ok") => i = Len(log)
             /\ (log[i].kind = "post" /\ log[i].outcome # "ok"
                   /\ log[i].attempt < sink_config.max_retries)
                  => /\ i < Len(log)
                     /\ log[i + 1].kind = "sleep"
                     /\ log[i + 1].secs = 2 ^ log[i].attempt
             /\ (log[i].kind = "post" /\ i > 1) => log[i - 1].kind = "sleep"
             /\ (log[i].kind = "sleep" /\ i < Len(log)) => log[i + 1].kind = "post"
       /\ \A i \in 1..Len(batches[b].events), j \in 1..Len(_buffer) :
             batches[b].events[i] # _buffer[j]

\* C17: every batch drained by the audit sink gets at most 1 + max_retries POST
\* attempts, numbered from 0, none after a success; a failed attempt k < max_retries
\* is followed by a wait of 2^k seconds before the next attempt; the events of a
\* drained batch, dropped or not, are never in the buffer again.
C17_BoundedRetriesThenDrop ==
    variant = "audit" => \A b \in 1..Len(batches) : DeliveryPattern(b)

\* a batch of the audit sink was dropped after three failed attempts and waits of
\* 1 and 2 seconds
C17_Witness ==
    /\ variant = "audit"
    /\ sink_config.max_retries = 2
    /\ \E b \in 1..Len(batches) :
          /\ Delivered(b)
          /\ Len(Posts(b)) = 3
          /\ \A i \in 1..3 : Posts(b)[i].outcome = "HTTPError"
          /\ Len(BatchLog(b)) = 5
          /\ BatchLog(b)[2].secs = 1
          /\ BatchLog(b)[4].secs = 2

\* event e is in a batch of bs for which log holds a POST attempt
PostedIn(e, bs, log) ==
    \E b \in 1..Len(bs) :
        /\ \E j \in 1..Len(bs[b].events) : bs[b].events[j] = e
        /\ \E k \in 1..Len(log) : log[k].batch = b /\ log[k].kind = "post"

\* close() of the audit sink returns in this step, no other caller having been
\* active since it was called
CloseReturnsQuietly ==
    /\ variant = "audit"
    /\ closing.state = "called"
    /\ closing'.state = "returned"
    /\ closing'.quiet

\* C18: when close() returns, with no other call running beside it, the buffer is
\* empty and every event that was in the buffer when close() was called is in a
\* batch that was POSTed.
C18_CloseLosesNothing ==
    [][CloseReturnsQuietly
         => /\ _buffer' = <<>>
            /\ \A i \in 1..Len(closing.buffered) :
                  PostedIn(closing.buffered[i], batches', net_log')]_vars

\* the flush thread has drained no batch and made no POST attempt since close()
\* ended
BackgroundSilentSinceClose ==
    /\ \A b \in 1..Len(batches) : b > closing.drained => batches[b].by # "bg"
    /\ \A k \in 1..Len(net_log) :
          (k > closing.log_len /\ net_log[k].kind = "post") => net_log[k].by # "bg"

\* C19: once close() has returned, the flush thread has terminated, and it has
\* drained no batch and made no POST attempt since close() returned.
C19_CloseStopsBackground ==
    closing.state = "returned" => thr["bg"].pc = "dead" /\ BackgroundSilentSinceClose

\* the buffer lock is free or held by a thread that is appending or draining
LockOnlyAroundBuffer ==
    _lock # "" => thr[_lock].pc \in {"emit_locked", "flush_locked"}

\* the append of caller t's emit() happens in this step and leaves the buffer
\* below batch_size
AppendsBelowThreshold(t) ==
    /\ thr[t].pc = "emit_locked"
    /\ thr'[t].pc # "emit_locked"
    /\ Len(_buffer') < sink_config.batch_size

\* C20: the buffer lock is never held during a POST attempt or a backoff wait, so
\* no emit() waits for the network I/O of another thread; and an emit() whose
\* append leaves the buffer below batch_size returns with the append, without a
\* POST attempt or a backoff wait.
C20_EmitBelowThresholdNeverBlocks ==
    /\ []LockOnlyAroundBuffer
    /\ [][\A t \in Callers :
            AppendsBelowThreshold(t) => thr'[t] = IdleThread /\ net_log' = net_log]_vars

\* an emit() has appended the second event and returned while another thread is
\* in a POST attempt or a backoff wait for the batch that holds the first
C20_Witness ==
    /\ _buffer = <<2>>
    /\ Len(_buffer) < sink_config.batch_size
    /\ _lock = ""
    /\ \A t \in Callers : thr[t].op # "emit"
    /\ \E t \in Threads : thr[t].pc \in {"post", "sleep"} /\ thr[t].batch = 1

\* ------------------------------------------------------------------------
\* KillKrillSink: the periodic flush
\* ------------------------------------------------------------------------
\* event e is in the buffer
Buffered(e) == \E i \in 1..Len(_buffer) : _buffer[i] = e

\* C21: while the sink is not closed, every buffered event is eventually in a
\* batch that was POSTed at least once (or the sink is closed first), whether
\* or not another emit() or flush() call is made.
C21_BufferedEventuallyPosted ==
    \A e \in 1..MaxEvents :
        (Buffered(e) /\ closing.state = "open")
            ~> (PostedIn(e, batches, net_log) \/ closing.state # "open")

\* no emit() call is in progress
NoEmitRunning == \A t \in Callers : thr[t].op # "emit"

\* the append of caller t's emit() happens in this step and brings the buffer
\* to batch_size or more
AppendsAtThreshold(t) ==
    /\ thr[t].pc = "emit_locked"
    /\ thr'[t].pc # "emit_locked"
    /\ Len(_buffer') >= sink_config.batch_size

\* caller t's emit() leaves the with block of its flush in this step
EmitLeavesDrain(t) ==
    /\ thr[t].op = "emit"
    /\ thr[t].pc = "flush_locked"
    /\ thr'[t].pc # "flush_locked"

\* C22: an emit() whose append brings the buffer to batch_size or more does not
\* return with the append but goes on to flush, and the buffer is empty when it
\* leaves the drain; so whenever no emit() is in progress the buffer holds fewer
\* than batch_size events.
C22_EagerFlush ==
    /\ [](NoEmitRunning => Len(_buffer) < sink_config.batch_size)
    /\ [][\A t \in Callers :
            /\ AppendsAtThreshold(t) => thr'[t].pc = "flush_lock" /\ thr'[t].op = "emit"
            /\ EmitLeavesDrain(t) => _buffer' = <<>>]_vars

\* an emit() that reached batch_size 2 has drained both events and returned
C22_Witness ==
    /\ NoEmitRunning
    /\ sink_config.batch_size = 2
    /\ _buffer = <<>>
    /\ \E b \in 1..Len(batches) :
          batches[b].op = "emit" /\ Len(batches[b].events) = 2 /\ Delivered(b)

\* C23: no batch handed to delivery holds more than batch_size events.
C23_BatchWithinBatchSize ==
    \A b \in 1..Len(batches) : Len(batches[b].events) <= sink_config.batch_size

\* ------------------------------------------------------------------------
\* OIDCRelyingParty: the cached discovery document
\* ------------------------------------------------------------------------
\* coroutine t's call ends in this step with the error for missing fields
RaisesMissingFields(t) ==
    /\ task[t].pc \in {"discover_get", "validate_get"}
    /\ task'[t].raised = "ValueError: missing required fields"

\* C24: no document that lacks issuer, jwks_uri, authorization_endpoint or
\* token_endpoint is ever cached; the call that fetched one ends with an error and
\* leaves the cached document and the JWKS client as they were; and while nothing
\* is cached a discover() call fetches and build_authorization_url raises.
C24_MissingFieldsLeaveUninitialized ==
    /\ [](_discovery # <<>> => required_fields \subseteq _discovery[1].fields)
    /\ [][\A t \in RPTasks :
            RaisesMissingFields(t)
                => /\ UNCHANGED <<_discovery, _jwks_client>>
                   /\ task'[t].pc = "done"
                   /\ task'[t].ret = <<>>]_vars
    /\ [](\A t \in RPTasks :
            /\ (task[t].op = "discover" /\ task[t].cached = <<>> /\ task[t].pc = "done")
                  => task[t].fetches = 1
            /\ (task[t].op = "build_authorization_url" /\ task[t].cached = <<>>)
                  => task[t].raised = "RuntimeError")

\* a discover() ended with the error for missing fields, nothing is cached, and
\* build_authorization_url has raised
C24_Witness ==
    /\ _discovery = <<>>
    /\ _jwks_client = <<>>
    /\ task["t1"].op = "discover"
    /\ task["t1"].raised = "ValueError: missing required fields"
    /\ task["t1"].fetches = 1
    /\ task["t2"].op = "build_authorization_url"
    /\ task["t2"].raised = "RuntimeError"

\* C25: once the discovery document and the JWKS client are set, no later step
\* assigns another document or client, however many discover() and
\* validate_token() calls were in flight when the first one was set.
C25_DiscoveryWriteOnce ==
    [][_discovery # <<>>
         => (_discovery' = _discovery /\ _jwks_client' = _jwks_client)]_vars

\* C28: the discovery document is cached exactly when the JWKS client exists, so
\* the two tests agree, and no validate_token call goes past its discovery step
\* without a JWKS client.
C28_DocumentIffClient ==
    /\ (_discovery = <<>>) <=> (_jwks_client = <<>>)
    /\ \A t \in RPTasks :
          /\ task[t].raised # "AssertionError"
          /\ task[t].lookups = 1 => _jwks_client # <<>>

\* a validate_token call that began without a JWKS client has discovered and then
\* looked its key up with the client
C28_Witness ==
    /\ _discovery # <<>>
    /\ _jwks_client # <<>>
    /\ \E t \in RPTasks :
          /\ task[t].op = "validate_token"
          /\ task[t].client = <<>>
          /\ task[t].fetches = 1
          /\ task[t].lookups = 1

\* ------------------------------------------------------------------------
\* Key store: the algorithm label of a JWK
\* ------------------------------------------------------------------------
\* the alg of a JWK is one its own key can sign with
AlgFitsKey(jwk) ==
    IF jwk.kty = "RSA"
    THEN jwk.alg \in {RS256, RS384, RS512, PS256, PS384, PS512}
    ELSE /\ jwk.kty = "EC"
         /\ jwk.alg = (IF jwk.crv = "P-256" THEN ES256
                       ELSE IF jwk.crv = "P-384" THEN ES384 ELSE ES512)

\* C26: every JWK that get_jwks() builds carries an alg that agrees with the type
\* of its own key, in every store reached by construction, rotation and reload
\* with a supported algorithm argument.
C26_JwkAlgFromKey ==
    algorithm \in SupportedAlgorithms => \A i \in 1..Len(rd_acc) : AlgFitsKey(rd_acc[i])

\* ------------------------------------------------------------------------
\* KillKrillSink: events, batches and their order
\* ------------------------------------------------------------------------
\* how often x occurs in seq
Occurrences(x, seq) == Cardinality({i \in 1..Len(seq) : seq[i] = x})

\* how often event e occurs in the first n batches
RECURSIVE InBatches(_, _)
InBatches(e, n) ==
    IF n = 0 THEN 0 ELSE Occurrences(e, batches[n].events) + InBatches(e, n - 1)

\* event e has been appended to the buffer
Appended(e) ==
    /\ e <= emitted
    /\ \A t \in Callers : ~(thr[t].pc = "emit_locked" /\ thr[t].event = e)

\* C27: every event that was appended is either still in the buffer, once, or in
\* exactly one batch handed to delivery, once; an event not yet appended is in
\* neither.
C27_EachEventInOneBatch ==
    \A e \in 1..MaxEvents :
        Occurrences(e, _buffer) + InBatches(e, Len(batches)) = IF Appended(e) THEN 1 ELSE 0

\* two events appended by different callers were drained into different batches,
\* one by the flush thread and one by a caller
C27_Witness ==
    /\ emitted = 2
    /\ _buffer = <<>>
    /\ Len(batches) = 2
    /\ batches[1].events = <<1>>
    /\ batches[2].events = <<2>>
    /\ batches[1].by = "bg"
    /\ batches[2].by \in Callers

\* the place in the network log of the first POST attempt of batch b (0: none)
FirstPost(b) ==
    IF \E k \in 1..Len(net_log) : net_log[k].batch = b /\ net_log[k].kind = "post"
    THEN CHOOSE k \in 1..Len(net_log) :
            /\ net_log[k].batch = b /\ net_log[k].kind = "post"
            /\ \A j \in 1..(k - 1) : ~(net_log[j].batch = b /\ net_log[j].kind = "post")
    ELSE 0

\* C29: of two events drained into different batches that were both POSTed, the
\* batch of the one appended first has its first POST attempt first.
C29_EmitOrderAcrossBatches ==
    \A b1, b2 \in 1..Len(batches) :
        \A i \in 1..Len(batches[b1].events), j \in 1..Len(batches[b2].events) :
            (/\ b1 # b2
             /\ batches[b1].events[i] < batches[b2].events[j]
             /\ FirstPost(b1) # 0
             /\ FirstPost(b2) # 0)
                => FirstPost(b1) < FirstPost(b2)

\* C30: the flush thread ends only after close() has been called.
C30_BackgroundLoopSurvives ==
    thr["bg"].pc = "dead" => _stopped
================================================================================
